---- MODULE Spec2Model ----
(***************************************************************************)
(* Model of src/src/schema_validator.py: loading JSON from files, building *)
(* a Draft-4 validator, validating instances, reporting the tree of        *)
(* validation errors, and the batch run over a test directory.             *)
(*                                                                         *)
(* A diagnostic is "emitted" when the code calls warnings.warn; a line is  *)
(* "printed" when the code calls print.  Both go to the variable output,   *)
(* in program order.                                                       *)
(***************************************************************************)
EXTENDS Integers, Sequences, FiniteSets

VARIABLES pc, path_to_schema_dir, path_to_test_dir, dirs, schema_file,
          sv, test_files, idx, output, calls, exc, exit_status, es, level

vars == <<pc, path_to_schema_dir, path_to_test_dir, dirs, schema_file,
          sv, test_files, idx, output, calls, exc, exit_status, es, level>>

\* ---------------------------------------------------------------- bounds
\* largest number of error nodes in the error forest of one instance
MaxNodes == 2
\* largest number of error nodes in a forest handed to the reporter alone
MaxTreeNodes == 5
\* largest number of *.json files the glob finds in the test directory
MaxFiles == 2
\* largest starting level handed to the reporter alone
MaxLevel == 1

\* ------------------------------------------------------- validation errors
\* A forest shape is a sequence of trees, a tree is the shape of its context.
RECURSIVE ShapesOf(_)
ShapesOf(n) ==
    IF n = 0 THEN {<< >>}
    ELSE UNION { { <<c>> \o r : c \in ShapesOf(k - 1), r \in ShapesOf(n - k) }
                 : k \in 1..n }

\* jsonschema ValidationError: message, absolute_schema_path, context.
\* The schema path of a context error extends its parent's by the branch.
RECURSIVE MkErrors(_, _)
MkErrors(shape, prefix) ==
    IF shape = << >> THEN << >>
    ELSE [i \in 1..Len(shape) |->
            [message |-> IF shape[i] = << >> THEN "is not of type"
                                             ELSE "is not valid under any of",
             absolute_schema_path |-> prefix \o <<i>>,
             context |-> MkErrors(shape[i], prefix \o <<i>>)]]

ErrorSeqs(n) == UNION { { MkErrors(s, << >>) : s \in ShapesOf(m) } : m \in 0..n }

\* ------------------------------------------------------------ output lines
StdoutLine(text) ==
    [src |-> "print", text |-> text, stars |-> 0, level |-> 0, path |-> << >>]

Warn(text) ==
    [src |-> "warning", text |-> text, stars |-> 0, level |-> 0, path |-> << >>]

\* "***" * level + " subschema level " + str(level) + message \t path
Diagnostic(e, lvl) ==
    [src |-> "diagnostic", text |-> e.message, stars |-> 3 * lvl,
     level |-> lvl, path |-> e.absolute_schema_path]

\* ------------------------------------------------------------------- files
None == [none |-> TRUE]
NoValidator == [validator |-> FALSE]

FailKinds == {"notfound", "ioerror", "badjson", "undecodable"}

\* an instance document, known by the errors the schema's validator finds
InstanceFiles ==
    { [kind |-> "ok", content |-> [errors |-> f]] : f \in ErrorSeqs(MaxNodes) }
    \cup { [kind |-> k, content |-> None] : k \in FailKinds }

\* a schema document: accepted by the Draft-4 meta-schema or not, and the
\* errors its validator finds in the instance None
SchemaFiles ==
    { [kind |-> "ok", content |-> [wellformed |-> TRUE, none_errors |-> f]]
        : f \in ErrorSeqs(MaxNodes) }
    \cup { [kind |-> "ok", content |-> [wellformed |-> FALSE, none_errors |-> << >>]] }
    \cup { [kind |-> k, content |-> None] : k \in FailKinds }

get_json_from_file(f) ==
    CASE f.kind = "ok" ->
           [raised |-> "none", value |-> f.content, out |-> << >>]
      [] f.kind = "notfound" ->
           [raised |-> "none", value |-> None, out |-> <<Warn("File not found")>>]
      [] f.kind = "ioerror" ->
           [raised |-> "none", value |-> None, out |-> <<Warn("I/O error while opening")>>]
      [] f.kind = "badjson" ->
           [raised |-> "none", value |-> None, out |-> <<Warn("Failed to parse JSON")>>]
      [] f.kind = "undecodable" ->
           [raised |-> "UnicodeDecodeError", value |-> None, out |-> << >>]

\* faulty variant: the meta-schema check lets a malformed schema object through
check_schema_lax(schema) == schema # None

\* Draft4Validator.check_schema: None is not an object, so it is rejected
check_schema(schema) == schema # None /\ schema.wellformed

Draft4Validator(schema) == [validator |-> TRUE, schema |-> schema]

get_validator(f) ==
    LET r == get_json_from_file(f) IN
    IF r.raised # "none"
    THEN [raised |-> r.raised, value |-> NoValidator, out |-> r.out,
          checked |-> FALSE]
    ELSE IF check_schema(r.value)
         THEN [raised |-> "none", value |-> Draft4Validator(r.value),
               out |-> r.out \o <<StdoutLine("is a valid JSON schema")>>,
               checked |-> TRUE]
         ELSE [raised |-> "SchemaError", value |-> NoValidator, out |-> r.out,
               checked |-> TRUE]

\* ------------------------------------------------------------- validation
\* faulty variant: a validator that remembers it was used and reports nothing more
iter_errors_used(validator, instance) ==
    IF idx > 0 THEN << >>
    ELSE IF instance = None THEN validator.schema.none_errors ELSE instance.errors

iter_errors(validator, instance) ==
    IF instance = None THEN validator.schema.none_errors ELSE instance.errors

is_valid(validator, instance) == iter_errors(validator, instance) = << >>

\* faulty variant: the context is reported before the error it belongs to
RECURSIVE recurse_post_order(_, _)
recurse_post_order(errs, lvl) ==
    IF errs = << >> THEN << >>
    ELSE LET e == Head(errs) IN
         IF e.context # << >>
         THEN recurse_post_order(e.context, lvl + 1)
              \o <<Diagnostic(e, lvl)>>
              \o recurse_post_order(Tail(errs), lvl + 1)
         ELSE <<Diagnostic(e, lvl)>>
              \o recurse_post_order(Tail(errs), lvl)

\* faulty variant: the walk returns after the first context instead of going on
RECURSIVE recurse_return_early(_, _)
recurse_return_early(errs, lvl) ==
    IF errs = << >> THEN << >>
    ELSE LET e == Head(errs) IN
         IF e.context # << >>
         THEN <<Diagnostic(e, lvl)>>
              \o recurse_return_early(e.context, lvl + 1)
         ELSE <<Diagnostic(e, lvl)>>
              \o recurse_return_early(Tail(errs), lvl)

RECURSIVE recurse_through_errors(_, _)
recurse_through_errors(errs, lvl) ==
    IF errs = << >> THEN << >>
    ELSE LET e == Head(errs) IN
         IF e.context # << >>
         THEN <<Diagnostic(e, lvl)>>
              \o recurse_through_errors(e.context, lvl + 1)
              \o recurse_through_errors(Tail(errs), lvl + 1)
         ELSE <<Diagnostic(e, lvl)>>
              \o recurse_through_errors(Tail(errs), lvl)

\* faulty variant: the failure message is printed before the errors are reported
validate_fails_first(validator, instance) ==
    IF is_valid(validator, instance)
    THEN [ret |-> TRUE, out |-> <<StdoutLine("Validation Passes")>>]
    ELSE [ret |-> FALSE,
          out |-> <<StdoutLine("Validation Fails")>>
                  \o recurse_through_errors(iter_errors(validator, instance), 0)]

validate(validator, instance) ==
    IF is_valid(validator, instance)
    THEN [ret |-> TRUE, out |-> <<StdoutLine("Validation Passes")>>]
    ELSE [ret |-> FALSE,
          out |-> recurse_through_errors(iter_errors(validator, instance), 0)
                  \o <<StdoutLine("Validation Fails")>>]

\* ------------------------------------------------------------------ paths
\* "a/" names the directory a; "b" has no "/", so its dirname is "" (".")
Paths == { <<"a", "/">>, <<"b">> }
DirNames == { <<"a">> }

RECURSIVE rstrip(_)
rstrip(p) ==
    IF p # << >> /\ p[Len(p)] = "/" THEN rstrip(SubSeq(p, 1, Len(p) - 1)) ELSE p

\* os.path.dirname: the part before the last "/", trailing slashes dropped
dirname(p) ==
    LET S == { i \in 1..Len(p) : p[i] = "/" } IN
    IF S = {} THEN << >>
    ELSE LET i == CHOOSE m \in S : \A n \in S : n <= m
             head == SubSeq(p, 1, i) IN
         IF rstrip(head) = << >> THEN head ELSE rstrip(head)

\* faulty variant: the existence test always succeeds
exists_always(d) == TRUE

\* os.path.exists(os.path.join(script_folder, Path(d))): Path("") is "."
exists(d) == d = << >> \/ d \in dirs

schema_dir == dirname(path_to_schema_dir)
test_dir == dirname(path_to_test_dir)

\* ---------------------------------------------------------------- batch run
\* one entry of the call history: the function, the file it worked for
\* (0: the schema), and how it returned
Call(fn, k, ret) == [fn |-> fn, at |-> k, ret |-> ret]

Tag(events, k) == [i \in 1..Len(events) |-> [ev |-> events[i], at |-> k]]

RECURSIVE SeqsUpTo(_, _)
SeqsUpTo(S, n) ==
    IF n = 0 THEN {<< >>}
    ELSE SeqsUpTo(S, n - 1)
         \cup { Append(s, x) : s \in { t \in SeqsUpTo(S, n - 1) : Len(t) = n - 1 },
                               x \in S }

Init ==
    /\ pc = "start"
    /\ path_to_schema_dir \in Paths
    /\ path_to_test_dir \in Paths
    /\ dirs \in SUBSET DirNames
    /\ schema_file = None
    /\ sv = NoValidator
    /\ test_files = << >>
    /\ idx = 0
    /\ output = << >>
    /\ calls = << >>
    /\ exc = "none"
    /\ exit_status = -1
    /\ es = << >>
    /\ level = 0

RaiseSchemaDir ==
    /\ pc = "start"
    /\ ~exists(schema_dir)
    /\ pc' = "raised"
    /\ exc' = "Please provide valid path_to_schema_dir"
    /\ exit_status' = 1
    /\ UNCHANGED <<path_to_schema_dir, path_to_test_dir, dirs, schema_file, sv,
                   test_files, idx, output, calls, es, level>>

RaiseTestDir ==
    /\ pc = "start"
    /\ exists(schema_dir)
    /\ ~exists(test_dir)
    /\ pc' = "raised"
    /\ exc' = "Please provide valid path_to_test_dir"
    /\ exit_status' = 1
    /\ UNCHANGED <<path_to_schema_dir, path_to_test_dir, dirs, schema_file, sv,
                   test_files, idx, output, calls, es, level>>

GetValidator ==
    /\ pc = "start"
    /\ exists(schema_dir)
    /\ exists(test_dir)
    /\ \E f \in SchemaFiles :
         LET r == get_validator(f) IN
         /\ schema_file' = f
         /\ output' = output \o Tag(r.out, 0)
         /\ calls' = calls \o <<Call("get_json_from_file", 0,
                                    IF r.checked THEN "value" ELSE "raised")>>
                     \o (IF r.checked
                         THEN <<Call("check_schema", 0,
                                     IF r.raised = "none" THEN "None" ELSE "raised")>>
                         ELSE << >>)
                     \o (IF r.raised = "none"
                         THEN <<Call("Draft4Validator", 0, "value")>> ELSE << >>)
         /\ sv' = r.value
         /\ IF r.raised = "none"
            THEN pc' = "glob" /\ UNCHANGED <<exc, exit_status>>
            ELSE pc' = "raised" /\ exc' = r.raised /\ exit_status' = 1
    /\ UNCHANGED <<path_to_schema_dir, path_to_test_dir, dirs, test_files, idx,
                   es, level>>

Glob ==
    /\ pc = "glob"
    /\ test_files' \in SeqsUpTo(InstanceFiles, MaxFiles)
    /\ pc' = "loop"
    /\ UNCHANGED <<path_to_schema_dir, path_to_test_dir, dirs, schema_file, sv,
                   idx, output, calls, exc, exit_status, es, level>>

Iterate ==
    /\ pc = "loop"
    /\ idx < Len(test_files)
    /\ LET k == idx + 1
           r == get_json_from_file(test_files[k])
           v == validate(sv, r.value)
       IN  IF r.raised # "none"
           THEN /\ pc' = "raised"
                /\ exc' = r.raised
                /\ exit_status' = 1
                /\ calls' = Append(calls, Call("get_json_from_file", k, "raised"))
                /\ output' = output \o Tag(r.out, k)
                /\ UNCHANGED <<idx, es, level>>
           ELSE /\ idx' = k
                /\ calls' = calls \o <<Call("get_json_from_file", k, "value"),
                                       Call("validate", k,
                                            IF v.ret THEN "True" ELSE "False")>>
                /\ output' = output \o Tag(r.out \o <<StdoutLine("Testing")>> \o v.out, k)
                /\ IF v.ret
                   THEN UNCHANGED <<es, level>>
                   ELSE es' = iter_errors(sv, r.value) /\ level' = 0
                /\ UNCHANGED <<pc, exc, exit_status>>
    /\ UNCHANGED <<path_to_schema_dir, path_to_test_dir, dirs, schema_file, sv,
                   test_files>>

Finish ==
    /\ pc = "loop"
    /\ idx = Len(test_files)
    /\ pc' = "done"
    /\ exit_status' = 0
    /\ UNCHANGED <<path_to_schema_dir, path_to_test_dir, dirs, schema_file, sv,
                   test_files, idx, output, calls, exc, es, level>>

Next ==
    \/ RaiseSchemaDir
    \/ RaiseTestDir
    \/ GetValidator
    \/ Glob
    \/ Iterate
    \/ Finish

Spec == Init /\ [][Next]_vars

\* ------------------------------------------------------ the reporter alone
InitR ==
    /\ pc = "call"
    /\ es \in ErrorSeqs(MaxTreeNodes)
    /\ level \in 0..MaxLevel
    /\ output = << >>
    /\ calls = << >>
    /\ path_to_schema_dir = << >>
    /\ path_to_test_dir = << >>
    /\ dirs = {}
    /\ schema_file = None
    /\ sv = NoValidator
    /\ test_files = << >>
    /\ idx = 0
    /\ exc = "none"
    /\ exit_status = -1

Report ==
    /\ pc = "call"
    /\ output' = Tag(recurse_through_errors(es, level), 0)
    /\ calls' = Append(calls, Call("recurse_through_errors", 0, "None"))
    /\ pc' = "returned"
    /\ UNCHANGED <<path_to_schema_dir, path_to_test_dir, dirs, schema_file, sv,
                   test_files, idx, exc, exit_status, es, level>>

NextR == Report

SpecR == InitR /\ [][NextR]_vars

\* ------------------------------------------------------- claim vocabulary
IsProperPrefix(p, q) == Len(p) < Len(q) /\ SubSeq(q, 1, Len(p)) = p

\* pre-order of tree positions: an ancestor first, then by branch number
PreOrderLess(p, q) ==
    \/ IsProperPrefix(p, q)
    \/ \E k \in 1..Len(p) :
         /\ k <= Len(q)
         /\ p[k] < q[k]
         /\ \A m \in 1..(k - 1) : p[m] = q[m]

RECURSIVE NodePaths(_)
NodePaths(errs) ==
    UNION { {errs[i].absolute_schema_path} \cup NodePaths(errs[i].context)
            : i \in 1..Len(errs) }

HasContext(errs) == \E i \in 1..Len(errs) : errs[i].context # << >>

IsDiag(x) == x.ev.src = "diagnostic"
IsLine(x, text) == x.ev.src = "print" /\ x.ev.text = text
IsWarning(x) == x.ev.src = "warning"

DiagIdx == { i \in 1..Len(output) : IsDiag(output[i]) }

\* what the run printed and warned while working on file k, in order
Segment(k) == SelectSeq(output, LAMBDA x : x.at = k)

CallsOf(fn, k) == { i \in 1..Len(calls) : calls[i].fn = fn /\ calls[i].at = k }

LoadedValue(k) == IF test_files[k].kind = "ok" THEN test_files[k].content ELSE None

ErrorsOf(k) ==
    IF LoadedValue(k) = None THEN sv.schema.none_errors ELSE LoadedValue(k).errors

\* M: the instance files of the run that fail validation
FailingFiles == { k \in 1..Len(test_files) : ErrorsOf(k) # << >> }

\* ------------------------------------------------------------------ C1
\* C1: a batch run that went through all K files ends with a failing exit
\* status and the message "Validation Fails" if and only if M > 0, and with
\* exit status 0 when M = 0.
C1_ExitFailsIffSomeInstanceFails ==
    pc = "done" =>
        /\ (exit_status # 0 /\ exc = "Validation Fails") <=> (FailingFiles # {})
        /\ (FailingFiles = {} => exit_status = 0)

\* ------------------------------------------------------------------ C2
\* C2: every diagnostic of a walk started at level L carries the level
\* L + (depth of its error in the tree), so siblings share one level.
C2_LevelIsDepth ==
    pc = "returned" =>
        \A i \in DiagIdx :
            output[i].ev.level = level + Len(output[i].ev.path) - 1

\* ------------------------------------------------------------------ C3
\* C3: the diagnostics come out in depth-first pre-order of the error tree:
\* an error before its descendants, all descendants of an error before its
\* next sibling, siblings in the order of their sequence.
C3_PreOrder ==
    pc = "returned" =>
        \A i, j \in DiagIdx :
            i < j => PreOrderLess(output[i].ev.path, output[j].ev.path)

C3_Witness ==
    /\ pc = "returned"
    /\ Len(es) >= 2
    /\ es[1].context # << >>
    /\ HasContext(es[1].context)
    /\ Len(output) = Cardinality(NodePaths(es))

\* ------------------------------------------------------------------ C4
\* C4: validate returns true exactly when the instance has no validation
\* error; on true it prints "Validation Passes" and emits no diagnostic; on
\* false every error of the instance is handed to the reporter and all
\* diagnostics precede the single closing "Validation Fails".
C4_Validate ==
    \A k \in 1..idx :
        \A c \in CallsOf("validate", k) :
            LET seg == Segment(k)
                D == { i \in 1..Len(seg) : IsDiag(seg[i]) }
            IN  /\ (calls[c].ret = "True") <=> (ErrorsOf(k) = << >>)
                /\ calls[c].ret = "True" =>
                      /\ D = {}
                      /\ IsLine(seg[Len(seg)], "Validation Passes")
                      /\ \A i \in 1..Len(seg) : ~IsLine(seg[i], "Validation Fails")
                /\ calls[c].ret = "False" =>
                      /\ { seg[i].ev.path : i \in D } = NodePaths(ErrorsOf(k))
                      /\ (k = idx => es = ErrorsOf(k) /\ level = 0)
                      /\ IsLine(seg[Len(seg)], "Validation Fails")
                      /\ \A i \in D : i < Len(seg)
                      /\ \A i \in 1..(Len(seg) - 1) :
                            /\ ~IsLine(seg[i], "Validation Fails")
                            /\ ~IsLine(seg[i], "Validation Passes")

C4_Witness ==
    /\ idx = 2
    /\ ErrorsOf(1) = << >>
    /\ HasContext(ErrorsOf(2))
    /\ \E i \in 1..Len(output) : IsLine(output[i], "Validation Passes")
    /\ IsLine(output[Len(output)], "Validation Fails")

\* ------------------------------------------------------------------ C5
\* C5: when the run has ended, every enumerated instance file was loaded
\* exactly once and validated exactly once (no instance stops the run).
\* run_validator keeps no per-file outcome (line 102 drops the value of
\* validate), so the recording the claim also asks for has no state here.
C5_EveryFileValidatedOnce ==
    pc \in {"done", "raised"} =>
        \A k \in 1..Len(test_files) :
            /\ Cardinality(CallsOf("get_json_from_file", k)) = 1
            /\ Cardinality(CallsOf("validate", k)) = 1

\* ------------------------------------------------------------------ C6
\* C6: if the schema directory or the test directory the run resolves does
\* not exist, the run raises the matching message (the schema directory's
\* first) and nothing was loaded, built, read, printed or validated.
Missing(d) == d # << >> /\ d \notin dirs

Confirmed == \E i \in 1..Len(output) : IsLine(output[i], "is a valid JSON schema")

Rejected ==
    /\ CallsOf("check_schema", 0) # {}
    /\ \/ schema_file.kind \in {"notfound", "ioerror", "badjson"}
       \/ schema_file.kind = "ok" /\ ~schema_file.content.wellformed

C7_BadSchemaIsFatal ==
    /\ Rejected =>
          /\ pc = "raised"
          /\ exc = "SchemaError"
          /\ exit_status # 0
          /\ ~Confirmed
          /\ sv = NoValidator
          /\ test_files = << >>
          /\ \A i \in 1..Len(calls) : calls[i].fn # "validate"
    /\ Confirmed => schema_file.kind = "ok" /\ schema_file.content.wellformed

C7_Witness ==
    /\ Rejected
    /\ schema_file.kind = "badjson"
    /\ pc = "raised"
    /\ Len(output) = 1 /\ IsWarning(output[1])

\* ------------------------------------------------------------------ C8
\* C8: in a run that validates instances the validator was built exactly
\* once and stays the one built from the schema, and two files holding the
\* same instance get the same diagnostics and the same pass/fail line.
Verdict(k) ==
    SelectSeq(Segment(k), LAMBDA x : x.ev.src \in {"diagnostic", "print"})

Builds == { i \in 1..Len(calls) : calls[i].fn = "Draft4Validator" }

FileAt(k) == IF k = 0 THEN schema_file ELSE test_files[k]

C9_LoadNeverRaises ==
    \A i \in 1..Len(calls) :
        calls[i].fn = "get_json_from_file" =>
            LET k == calls[i].at
                W == { n \in 1..Len(Segment(k)) : IsWarning(Segment(k)[n]) }
            IN  /\ calls[i].ret # "raised"
                /\ Cardinality(W) = IF FileAt(k).kind = "ok" THEN 0 ELSE 1

\* ----------------------------------------------------------------- C10
\* C10: the walk emits exactly one diagnostic for every error of the tree,
\* and for a single error without context, started at level 0, exactly one
\* diagnostic at level 0.
C10_OneDiagnosticPerError ==
    pc = "returned" =>
        /\ DiagIdx = 1..Len(output)
        /\ \A p \in NodePaths(es) :
              Cardinality({ i \in DiagIdx : output[i].ev.path = p }) = 1
        /\ \A i \in DiagIdx : output[i].ev.path \in NodePaths(es)
        /\ (Len(es) = 1 /\ es[1].context = << >> /\ level = 0) =>
              /\ Len(output) = 1
              /\ output[1].ev.level = 0
              /\ output[1].ev.stars = 0

C10_Witness ==
    /\ pc = "returned"
    /\ Len(es) >= 2
    /\ es[1].context # << >>
    /\ Len(output) = MaxTreeNodes
    /\ Cardinality(NodePaths(es)) = MaxTreeNodes
====
